---- MODULE Spec2Model ----
(***************************************************************************)
(* The HTTP execution core of monimejs (src/src/http-client.js,            *)
(* src/src/errors.js): request construction, the retry loop, one attempt   *)
(* with its timeout timer and composed abort signal, error classification. *)
(*                                                                         *)
(* A JavaScript value that may be undefined is a set with at most one      *)
(* element: {} is undefined, {v} is the value v.                           *)
(***************************************************************************)
EXTENDS Integers, Sequences, FiniteSets, TLC

VARIABLES client, calls

vars == <<client, calls>>

(* ------------------------------ bounds -------------------------------- *)

\* the largest retry count a caller configures (client option or override)
MaxRetries == 2

(* ------------------------- program constants -------------------------- *)

API_VERSION == "v1"
DEFAULT_TIMEOUT == 30000
DEFAULT_RETRIES == 2
DEFAULT_RETRY_DELAY == 1000
DEFAULT_RETRY_BACKOFF == 2
\* a URL is the sequence of its scheme (up to "://") and the rest
DEFAULT_BASE_URL == <<"https://", "api.monime.io">>
\* Math.random() * 500
JITTER_RANGE == 500
\* seconds * 1e3
MS_PER_SECOND == 1000

(* --------------------------- small helpers ---------------------------- *)

\* a ?? b
Nullish(a, b) == IF a = {} THEN b ELSE CHOOSE x \in a : TRUE

RECURSIVE Pow(_, _)
\* base ** exp
Pow(base, exp) == IF exp <= 0 THEN 1 ELSE base * Pow(base, exp - 1)

(* ------------------------------ errors -------------------------------- *)

\* an error object: its class, its name property and the fields the classes add
ErrorObject(class, name, code, reason, details, retryAfter, timeout) ==
    [class |-> class, name |-> name, code |-> code, reason |-> reason,
     details |-> details, retryAfter |-> retryAfter, timeout |-> timeout]

\* new MonimeApiError(message, code, reason, details, retryAfter)
MonimeApiError(code, reason, details, retryAfter) ==
    ErrorObject("MonimeApiError", "MonimeApiError", code, reason, details, retryAfter, {})

\* new MonimeTimeoutError(timeout, url)
MonimeTimeoutError(timeout) ==
    ErrorObject("MonimeTimeoutError", "MonimeTimeoutError", {}, "", "none", {}, {timeout})

\* new MonimeNetworkError(message, cause)
MonimeNetworkError ==
    ErrorObject("MonimeNetworkError", "MonimeNetworkError", {}, "", "none", {}, {})

\* the TypeError fetch rejects with on a network failure, and the one a
\* property read of null throws
TypeError == ErrorObject("TypeError", "TypeError", {}, "", "none", {}, {})

\* the DOMException an aborted signal carries as its reason:
\* "AbortError" for controller.abort(), "TimeoutError" for AbortSignal.timeout()
DOMException(name) == ErrorObject("DOMException", name, {}, "", "none", {}, {})

\* the Error of the loop's fall-through throw
UnknownError == ErrorObject("Error", "Error", {}, "", "none", {}, {})

\* MonimeApiError.isRetryable
isRetryable(error) ==
    \E code \in error.code :
        \/ code = 429
        \/ code = 500
        \/ code = 502
        \/ code = 503
        \/ code = 504

(* ---------------------------- construction ---------------------------- *)

\* the client options callers construct clients with
ClientOptionsSet ==
    [spaceId : {"spc-1"}, accessToken : {"tok"}, baseUrl : {{}},
     timeout : {{}}, retries : {{}, {1}},
     retryDelay : {{}}, retryBackoff : {{}}, validateInputs : {{}}]

\* the client options of callers who set baseUrl and validateInputs, or pass
\* a spaceId that is empty or lacks the "spc-" prefix
BaseUrlOptionsSet ==
    [spaceId : {"spc-1", "acme", ""}, accessToken : {"tok"},
     baseUrl : {{}, {<<"https://", "sandbox.monime.io">>},
                {<<"http://", "api.monime.io">>}, {<<"api.monime.io">>}},
     timeout : {{}}, retries : {{}},
     retryDelay : {{}}, retryBackoff : {{}}, validateInputs : {{}, {TRUE}, {FALSE}}]

\* String.prototype.startsWith, for a string given as the sequence of its parts
startsWith(str, prefix) == Len(str) > 0 /\ str[1] = prefix

\* MonimeValidationError with the fields of its issues
MonimeValidationError(fields) ==
    [class |-> "MonimeValidationError", name |-> "MonimeValidationError",
     issues |-> fields]

\* the fields of options that fail ClientOptionsSchema
ClientOptionsIssues(options) ==
    {field \in {"spaceId"} : options.spaceId = ""}
    \cup {field \in {"accessToken"} : options.accessToken = ""}
    \cup {field \in {"timeout"} : \E n \in options.timeout : n < 0}
    \cup {field \in {"retries"} : \E n \in options.retries : n < 0}
    \cup {field \in {"retryDelay"} : \E n \in options.retryDelay : n < 0}
    \cup {field \in {"retryBackoff"} : \E n \in options.retryBackoff : n < 0}

\* `new MonimeHttpClient(options)` is about to be evaluated
Pending(options) == [options |-> options]

\* `new MonimeHttpClient(options)` threw error: there is no client
Failed(options, error) == [rejected |-> options, thrown |-> error]

\* MonimeHttpClient.constructor: the fields it sets
MonimeHttpClient(options) ==
    [base_url |-> Nullish(options.baseUrl, DEFAULT_BASE_URL),
     validate_inputs |-> Nullish(options.validateInputs, TRUE),
     space_id |-> options.spaceId,
     access_token |-> options.accessToken,
     timeout |-> Nullish(options.timeout, DEFAULT_TIMEOUT),
     retries |-> Nullish(options.retries, DEFAULT_RETRIES),
     retry_delay |-> Nullish(options.retryDelay, DEFAULT_RETRY_DELAY),
     retry_backoff |-> Nullish(options.retryBackoff, DEFAULT_RETRY_BACKOFF)]

\* a constructor that checks the scheme of baseUrl only when it validates
new_MonimeHttpClient_https_when_validating(options) ==
    IF options.validateInputs # {FALSE}
       /\ \/ \E url \in options.baseUrl : ~startsWith(url, "https://")
          \/ ClientOptionsIssues(options) # {}
    THEN Failed(options, MonimeValidationError(ClientOptionsIssues(options)))
    ELSE MonimeHttpClient(options)

\* MonimeHttpClient.constructor: the HTTPS check, the schema validation,
\* then the fields
new_MonimeHttpClient(options) ==
    IF \E url \in options.baseUrl : ~startsWith(url, "https://")
    THEN Failed(options, MonimeValidationError({"baseUrl"}))
    ELSE IF options.validateInputs # {FALSE} /\ ClientOptionsIssues(options) # {}
    THEN Failed(options, MonimeValidationError(ClientOptionsIssues(options)))
    ELSE MonimeHttpClient(options)

\* the constructor returned: client is a MonimeHttpClient
Constructed(cl) == "base_url" \in DOMAIN cl

(* ------------------------------ inputs -------------------------------- *)

\* the per-call timeout overrides callers pass (config.timeout)
TimeoutOverrides == {{}, {0}, {50}}

\* the per-call retry overrides callers pass (config.retries)
RetryOverrides == {{}} \cup {{n} : n \in 0..MaxRetries}

\* config.signal: none, a signal not yet aborted, or one aborted before the call
SignalArgs == {"none", "live", "aborted"}

\* the reason an aborted caller's signal carries
AbortReasons == {"AbortError", "TimeoutError"}

\* method, body and config.idempotencyKey of the descriptors callers pass
Descriptors ==
    { [method |-> "GET", body |-> {}, idempotencyKey |-> {}],
      [method |-> "POST", body |-> {"payload"}, idempotencyKey |-> {}],
      [method |-> "POST", body |-> {}, idempotencyKey |-> {"key-1"}],
      [method |-> "DELETE", body |-> {}, idempotencyKey |-> {"key-1"}] }

\* the values of a query parameter: undefined, a number, a boolean, a string
Undefined == [type |-> "undefined", n |-> 0, b |-> FALSE, s |-> ""]

NumberValue(n) == [type |-> "number", n |-> n, b |-> FALSE, s |-> ""]

BooleanValue(b) == [type |-> "boolean", n |-> 0, b |-> b, s |-> ""]

StringValue(s) == [type |-> "string", n |-> 0, b |-> FALSE, s |-> s]

\* a descriptor without params
NoParams == {}

\* the params of the descriptors of list operations: absent, an empty object,
\* or limit and after, each possibly undefined
ParamSets ==
    {NoParams, {<<>>}}
    \cup { {<<[key |-> "limit", value |-> limit], [key |-> "after", value |-> after]>>} :
             limit \in {Undefined, NumberValue(0), NumberValue(10)},
             after \in {Undefined, StringValue(""), StringValue("x"), BooleanValue(FALSE)} }

\* the values crypto.randomUUID() returns
UUIDs == {"uuid-1", "uuid-2"}

\* the HTTP statuses the server answers with
Statuses == {200, 400, 429, 503}

\* the Retry-After header of a response: absent, or its parsed form
\* (integer seconds n, or an HTTP-date n milliseconds away from now)
RetryAfterHeaders ==
    {{}, {[form |-> "seconds", n |-> 2]}, {[form |-> "date", n |-> 0 - 1000]}}

\* the values of a Retry-After header: the empty string, decimal digits
\* ("0", "2"), digits followed by other characters ("1.5"), an HTTP-date n
\* milliseconds away from now, and text that is none of these
RetryAfterValues ==
    {[form |-> "empty", n |-> 0], [form |-> "garbage", n |-> 0],
     [form |-> "prefixed", n |-> 1]}
    \cup {[form |-> "seconds", n |-> n] : n \in {0, 2}}
    \cup {[form |-> "date", n |-> n] : n \in {0 - 1000, 0, 3000}}

\* the Retry-After header of a response: absent, or any of the values
AllRetryAfterHeaders == {{}} \cup {{h} : h \in RetryAfterValues}

\* the error.code values of a structured error envelope, next to the
\* response's own status
EnvelopeCodes == {{}, {400}, {503}}

\* the values Math.random() * 500 takes
Jitters == {0, JITTER_RANGE - 1}

(* --------------------------- per-call state --------------------------- *)

\* a header record with no header set
NoHeaders ==
    [space_id |-> {}, authorization |-> {}, content_type |-> {}, idempotency_key |-> {}]

\* a logical call before request() is invoked
NewCall ==
    [pc |-> "idle", op |-> {}, params |-> NoParams, config |-> [timeout |-> {}, retries |-> {}, idempotencyKey |-> {}],
     method |-> "", url |-> <<>>, fetch_options |-> [headers |-> NoHeaders, body |-> {}],
     timeout |-> 0, max_retries |-> 0,
     external_signal |-> FALSE, ext_aborted |-> FALSE, ext_reason |-> {},
     total_attempts |-> 0, attempt_number |-> 0,
     timeout_id |-> {}, timeout_aborted |-> FALSE,
     signal |-> FALSE, signal_reason |-> {},
     res |-> {}, last_error |-> {}, delay |-> {},
     outcome |-> "pending", thrown |-> {}, resolutions |-> 0,
     sent |-> <<>>, timers |-> {}]

\* external_signal?.aborted
ExternalAborted(s) == s.external_signal /\ s.ext_aborted

\* String(value) of a query parameter value
String(value) ==
    IF value.type = "number" THEN ToString(value.n)
    ELSE IF value.type = "boolean" THEN (IF value.b THEN "true" ELSE "false")
    ELSE IF value.type = "string" THEN value.s
    ELSE "undefined"

\* build_url's loop keeping only the truthy values
search_params_truthy(entries) ==
    LET truthy(e) == \/ e.value.type = "number" /\ e.value.n # 0
                     \/ e.value.type = "boolean" /\ e.value.b
                     \/ e.value.type = "string" /\ e.value.s # ""
        kept == SelectSeq(entries, truthy)
    IN  [i \in 1..Len(kept) |-> <<kept[i].key, String(kept[i].value)>>]

\* build_url's loop over Object.entries(params): the key/value pairs set on
\* the URLSearchParams
search_params(entries) ==
    LET defined(e) == e.value.type # "undefined"
        kept == SelectSeq(entries, defined)
    IN  [i \in 1..Len(kept) |-> <<kept[i].key, String(kept[i].value)>>]

\* MonimeHttpClient.build_url: base URL, version, path and, when there is a
\* query string, "?" and the query
build_url(cl, path, params) ==
    LET query_string == IF params = {} THEN <<>>
                        ELSE search_params(CHOOSE entries \in params : TRUE)
    IN  <<cl.base_url, API_VERSION, path>>
        \o (IF query_string # <<>> THEN <<"?", query_string>> ELSE <<>>)

\* build_headers that never sets Content-Type
build_headers_no_content_type(cl, method, body, idempotency_key, uuid) ==
    [space_id |-> {cl.space_id},
     authorization |-> {<<"Bearer", cl.access_token>>},
     content_type |-> {},
     idempotency_key |-> IF method = "POST" THEN {Nullish(idempotency_key, uuid)} ELSE {}]

\* build_headers falling back on one key kept for all calls
build_headers_shared_key(cl, method, body, idempotency_key, uuid) ==
    [space_id |-> {cl.space_id},
     authorization |-> {<<"Bearer", cl.access_token>>},
     content_type |-> IF body # {} THEN {"application/json"} ELSE {},
     idempotency_key |-> IF method = "POST" THEN {Nullish(idempotency_key, "uuid-1")} ELSE {}]

\* MonimeHttpClient.build_headers
build_headers(cl, method, body, idempotency_key, uuid) ==
    [space_id |-> {cl.space_id},
     authorization |-> {<<"Bearer", cl.access_token>>},
     content_type |-> IF body # {} THEN {"application/json"} ELSE {},
     idempotency_key |-> IF method = "POST" THEN {Nullish(idempotency_key, uuid)} ELSE {}]

\* the async function settles by returning data
Return(s, data) ==
    [s EXCEPT !.pc = "done", !.outcome = "success", !.thrown = {},
              !.resolutions = @ + 1]

\* the async function settles by throwing error
Throw(s, error) ==
    [s EXCEPT !.pc = "done", !.outcome = "failure", !.thrown = {error},
              !.resolutions = @ + 1]

\* fetch_init with the Idempotency-Key generated anew for each attempt
fetch_init_fresh_key(s) ==
    [url |-> s.url, method |-> s.method,
     headers |-> [s.fetch_options.headers EXCEPT
                    !.idempotency_key =
                        IF @ = {} THEN @
                        ELSE IF s.attempt_number % 2 = 1 THEN {"uuid-1"} ELSE {"uuid-2"}],
     body |-> s.fetch_options.body, signal |-> s.signal]

\* the init object of one fetch call: { ...fetch_options, ...(signal && { signal }) }
fetch_init(s) ==
    [url |-> s.url, method |-> s.method, headers |-> s.fetch_options.headers,
     body |-> s.fetch_options.body, signal |-> s.signal]

\* execute_request_begin composing a signal that forgets an abort made
\* before the attempt
execute_request_begin_fresh_signal(s) ==
    LET armed == s.timeout > 0
        id == <<"timeout", s.attempt_number>>
        s1 == [s EXCEPT !.timeout_id = IF armed THEN {id} ELSE {},
                        !.timers = IF armed THEN @ \cup {id} ELSE @,
                        !.timeout_aborted = FALSE,
                        !.signal = armed \/ s.external_signal,
                        !.signal_reason = {},
                        !.res = {}, !.delay = {}]
    IN  [s1 EXCEPT !.pc = "fetching", !.sent = Append(@, fetch_init(s1))]

\* execute_request_begin arming the timer for a timeout of 0 as well
execute_request_begin_arms_zero(s) ==
    LET armed == s.timeout >= 0
        id == <<"timeout", s.attempt_number>>
        s1 == [s EXCEPT !.timeout_id = IF armed THEN {id} ELSE {},
                        !.timers = IF armed THEN @ \cup {id} ELSE @,
                        !.timeout_aborted = FALSE,
                        !.signal = armed \/ s.external_signal,
                        !.signal_reason =
                            IF ExternalAborted(s) THEN s.ext_reason ELSE {},
                        !.res = {}, !.delay = {}]
    IN  [s1 EXCEPT !.pc = "fetching", !.sent = Append(@, fetch_init(s1))]

\* execute_request_begin without the timeout timer
execute_request_begin_no_timer(s) ==
    LET s1 == [s EXCEPT !.timeout_id = {},
                        !.timeout_aborted = FALSE,
                        !.signal = s.external_signal,
                        !.signal_reason =
                            IF ExternalAborted(s) THEN s.ext_reason ELSE {},
                        !.res = {}, !.delay = {}]
    IN  [s1 EXCEPT !.pc = "fetching", !.sent = Append(@, fetch_init(s1))]

\* execute_request up to its first await: arm the timer, compose the
\* signal, call fetch
execute_request_begin(s) ==
    LET armed == s.timeout > 0
        id == <<"timeout", s.attempt_number>>
        s1 == [s EXCEPT !.timeout_id = IF armed THEN {id} ELSE {},
                        !.timers = IF armed THEN @ \cup {id} ELSE @,
                        !.timeout_aborted = FALSE,
                        !.signal = armed \/ s.external_signal,
                        !.signal_reason =
                            IF ExternalAborted(s) THEN s.ext_reason ELSE {},
                        !.res = {}, !.delay = {}]
    IN  [s1 EXCEPT !.pc = "fetching", !.sent = Append(@, fetch_init(s1))]

\* execute_request's catch block: what it throws for a caught error
execute_request_catch(s, error) ==
    IF error.class \in {"MonimeApiError", "MonimeTimeoutError", "MonimeNetworkError"}
    THEN error
    ELSE IF error.name = "AbortError"
    THEN IF s.timeout_id # {} /\ s.timeout_aborted /\ ~ExternalAborted(s)
         THEN MonimeTimeoutError(s.timeout)
         ELSE error
    ELSE IF error.class = "TypeError"
    THEN MonimeNetworkError
    ELSE error

\* a finally block that leaves the timer armed
execute_request_finally_leak(s) == s

\* execute_request's finally block
execute_request_finally(s) ==
    [s EXCEPT !.timers = IF s.timeout_id # {} THEN @ \ s.timeout_id ELSE @]

\* is_retryable_error answering true for every error
is_retryable_error_any(error) == TRUE

\* MonimeHttpClient.is_retryable_error
is_retryable_error(error) ==
    IF error.class = "MonimeNetworkError" THEN TRUE
    ELSE IF error.class = "MonimeApiError" THEN isRetryable(error)
    ELSE IF error.name = "AbortError" THEN FALSE
    ELSE FALSE

\* the exponent taken one too high: the first retry already multiplied
calculate_retry_delay_next_exponent(cl, retry_index, error, jitter) ==
    IF error.class = "MonimeApiError" /\ error.retryAfter # {}
    THEN CHOOSE ms \in error.retryAfter : TRUE
    ELSE cl.retry_delay * Pow(cl.retry_backoff, retry_index + 1) + jitter

\* calculate_retry_delay adding the backoff and the jitter to a retry-after value
calculate_retry_delay_adds_backoff(cl, retry_index, error, jitter) ==
    (IF error.class = "MonimeApiError" /\ error.retryAfter # {}
     THEN CHOOSE ms \in error.retryAfter : TRUE
     ELSE 0)
    + cl.retry_delay * Pow(cl.retry_backoff, retry_index) + jitter

\* MonimeHttpClient.calculate_retry_delay, jitter being Math.random() * 500
calculate_retry_delay(cl, retry_index, error, jitter) ==
    IF error.class = "MonimeApiError" /\ error.retryAfter # {}
    THEN CHOOSE ms \in error.retryAfter : TRUE
    ELSE cl.retry_delay * Pow(cl.retry_backoff, retry_index) + jitter

\* a sleep that is not awaited: the timer is set and the loop goes on at once
sleep_not_awaited(s, ms) ==
    execute_request_begin(
        [s EXCEPT !.delay = {ms},
                  !.timers = @ \cup {<<"sleep", s.attempt_number>>},
                  !.attempt_number = @ + 1])

\* MonimeHttpClient.sleep: a timer that resolves the awaited promise
sleep(s, ms) ==
    [s EXCEPT !.pc = "sleeping", !.delay = {ms},
              !.timers = @ \cup {<<"sleep", s.attempt_number>>}]

\* a catch block that keeps the error of the first failed attempt
retry_catch_keeps_first(cl, s, error, jitter) ==
    LET first == IF s.last_error = {} THEN error ELSE CHOOSE e \in s.last_error : TRUE
        s1 == [s EXCEPT !.last_error = {first}]
    IN  IF error.name = "AbortError" /\ ExternalAborted(s1)
        THEN Throw(s1, first)
        ELSE IF error.class = "MonimeTimeoutError"
        THEN Throw(s1, first)
        ELSE IF ~is_retryable_error(error) \/ s1.attempt_number = s1.total_attempts
        THEN Throw(s1, first)
        ELSE sleep(s1, calculate_retry_delay(cl, s1.attempt_number - 1, error, jitter))

\* execute_with_retry's catch block
retry_catch(cl, s, error, jitter) ==
    LET s1 == [s EXCEPT !.last_error = {error}]
    IN  IF error.name = "AbortError" /\ ExternalAborted(s1)
        THEN Throw(s1, error)
        ELSE IF error.class = "MonimeTimeoutError"
        THEN Throw(s1, error)
        ELSE IF ~is_retryable_error(error) \/ s1.attempt_number = s1.total_attempts
        THEN Throw(s1, error)
        ELSE sleep(s1, calculate_retry_delay(cl, s1.attempt_number - 1, error, jitter))

\* execute_with_retry's loop test, the attempt it starts and the throw
\* after the loop
retry_loop(s) ==
    IF s.attempt_number <= s.total_attempts
    THEN execute_request_begin(s)
    ELSE Throw(s, Nullish(s.last_error, UnknownError))

\* an attempt ends with error thrown inside execute_request's try block
attempt_throws(cl, s, error, jitter) ==
    retry_catch(cl, execute_request_finally(s), execute_request_catch(s, error), jitter)

\* a loop that goes on to the next attempt after a successful one
attempt_returns_and_continues(s, data) ==
    retry_loop([Return(execute_request_finally(s), data) EXCEPT !.attempt_number = @ + 1])

\* an attempt ends with execute_request returning data
attempt_returns(s, data) == Return(execute_request_finally(s), data)

(* ----------------------------- responses ----------------------------- *)

\* res.ok
ok(status) == status >= 200 /\ status <= 299

\* the values res.json() resolves to: null, a value without a truthy error
\* property, or a structured error envelope
JsonBodies(status) ==
    { [json |-> TRUE, null |-> TRUE, error |-> {}],
      [json |-> TRUE, null |-> FALSE, error |-> {}] }
    \cup { [json |-> TRUE, null |-> FALSE,
            error |-> {[code |-> code, reason |-> "envelope_reason",
                        details |-> "envelope_details"]}] :
           code \in EnvelopeCodes \cup {{status}} }

\* a response body that res.json() cannot parse
NotJson == [json |-> FALSE, null |-> FALSE, error |-> {}]

\* the response once res.json() has consumed its body
BodyRead(s, res, body) == [s EXCEPT !.res = {[res EXCEPT !.body = {body}]}]

\* Number.parseInt(retry_after, 10): the integer the text begins with, NaN
\* (no value) when it begins with none
parseInt(h) == IF h.form \in {"seconds", "prefixed"} THEN {h.n} ELSE {}

\* Date.parse(retry_after) - Date.now(): the milliseconds from now to the
\* date, NaN (no value) when the text is not a date
Date_parse(h) == IF h.form = "date" THEN {h.n} ELSE {}

\* parse_retry_after multiplying nothing: the seconds are returned as they are
parse_retry_after_unscaled(header) ==
    IF header = {} \/ \E h \in header : h.form = "empty" THEN {}
    ELSE LET h == CHOOSE x \in header : TRUE
         IN  IF parseInt(h) # {} THEN parseInt(h)
             ELSE {delay \in Date_parse(h) : delay > 0}

\* parse_retry_after returning the delay of a date that is not in the future
parse_retry_after_any_date(header) ==
    IF header = {} \/ \E h \in header : h.form = "empty" THEN {}
    ELSE LET h == CHOOSE x \in header : TRUE
         IN  IF parseInt(h) # {} THEN {seconds * MS_PER_SECOND : seconds \in parseInt(h)}
             ELSE Date_parse(h)

\* MonimeHttpClient.parse_retry_after
parse_retry_after(header) ==
    IF header = {} \/ \E h \in header : h.form = "empty" THEN {}
    ELSE LET h == CHOOSE x \in header : TRUE
         IN  IF parseInt(h) # {} THEN {seconds * MS_PER_SECOND : seconds \in parseInt(h)}
             ELSE {delay \in Date_parse(h) : delay > 0}

\* an invalid_json error that carries the parsed Retry-After header
invalid_json_error_with_retry_after(res) ==
    MonimeApiError({res.status}, "invalid_json", "empty", parse_retry_after(res.retry_after))

\* an invalid_json error that loses the response's status
invalid_json_error_no_status(res) == MonimeApiError({}, "invalid_json", "empty", {})

\* the error execute_request throws when res.json() rejects
invalid_json_error(res) == MonimeApiError({res.status}, "invalid_json", "empty", {})

\* http_error attaching the parsed Retry-After to a 429 answer only
http_error_429_only(res, data) ==
    LET retry_after == IF res.status = 429 THEN parse_retry_after(res.retry_after) ELSE {}
    IN  IF data.null THEN TypeError
        ELSE IF data.error # {}
        THEN LET e == CHOOSE x \in data.error : TRUE
             IN  MonimeApiError(e.code, e.reason, e.details, retry_after)
        ELSE MonimeApiError({res.status}, "http_error", "empty", retry_after)

\* the error execute_request's !res.ok branch throws for parsed data
http_error(res, data) ==
    LET retry_after == parse_retry_after(res.retry_after)
    IN  IF data.null THEN TypeError
        ELSE IF data.error # {}
        THEN LET e == CHOOSE x \in data.error : TRUE
             IN  MonimeApiError(e.code, e.reason, e.details, retry_after)
        ELSE MonimeApiError({res.status}, "http_error", "empty", retry_after)

\* the composed signal of the attempt in flight is aborted
SignalAborted(s) == s.signal /\ s.signal_reason # {}

(* ------------------------------ actions ------------------------------- *)

\* crypto.randomUUID(): a value no other call has been given
randomUUID(c) ==
    UUIDs \ UNION {calls[o].fetch_options.headers.idempotency_key :
                      o \in DOMAIN calls \ {c}}

\* the overrides read with || instead of ??: a supplied 0 gives way to the default
request_overrides_falsy(cl, timeout, retries) ==
    [timeout |-> IF timeout = {0} THEN cl.timeout ELSE Nullish(timeout, cl.timeout),
     max_retries |-> IF retries = {0} THEN cl.retries ELSE Nullish(retries, cl.retries)]

\* request: the timeout and the retry budget of one call
request_overrides(cl, timeout, retries) ==
    [timeout |-> Nullish(timeout, cl.timeout),
     max_retries |-> Nullish(retries, cl.retries)]

\* MonimeHttpClient.request for a path, through execute_with_retry to the
\* first fetch, for options drawn from the given sets
request_call(cl, s0, path, d, params, t, r, sig, reason, uuid) ==
    LET timeout == request_overrides(cl, t, r).timeout
        max_retries == request_overrides(cl, t, r).max_retries
        url == build_url(cl, path, params)
        headers == build_headers(cl, d.method, d.body, d.idempotencyKey, uuid)
        s == [s0 EXCEPT
                !.params = params,
                !.config = [timeout |-> t, retries |-> r,
                            idempotencyKey |-> d.idempotencyKey],
                !.method = d.method, !.url = url,
                !.fetch_options = [headers |-> headers, body |-> d.body],
                !.timeout = timeout, !.max_retries = max_retries,
                !.external_signal = (sig # "none"),
                !.ext_aborted = (sig = "aborted"),
                !.ext_reason = IF sig = "aborted" THEN {reason} ELSE {},
                !.total_attempts = 1 + max_retries,
                !.attempt_number = 1]
    IN  retry_loop(s)

\* MonimeHttpClient.request as an action of call c
request_at(c, path, descriptors, paramsets, timeouts, retries, signals) ==
    /\ calls[c].pc = "idle"
    /\ \E d \in descriptors, params \in paramsets, t \in timeouts, r \in retries,
          sig \in signals, reason \in AbortReasons, uuid \in randomUUID(c) :
         calls' = [calls EXCEPT ![c] =
                     request_call(client, calls[c], path, d, params, t, r, sig, reason, uuid)]
    /\ UNCHANGED client

\* MonimeHttpClient.request for the path /payouts
request_with(c, descriptors, paramsets, timeouts, retries, signals) ==
    request_at(c, "/payouts", descriptors, paramsets, timeouts, retries, signals)

\* MonimeHttpClient.request called by a resource module
request(c) ==
    request_with(c, Descriptors, {NoParams}, TimeoutOverrides, RetryOverrides, SignalArgs)

\* MonimeHttpClient.request with a retries override that may be negative
request_unvalidated(c) ==
    request_with(c, Descriptors, {NoParams}, TimeoutOverrides, RetryOverrides \cup {{-1}},
                 SignalArgs)

\* MonimeHttpClient.request: one of two POST calls made on the same client
request_concurrently(c) ==
    request_with(c, {d \in Descriptors : d.method = "POST"}, {NoParams}, {{}, {50}},
                 {{1}}, {"live"})

\* MonimeHttpClient.request on a client that was constructed
request_constructed(c) ==
    /\ Constructed(client)
    /\ request_with(c, {d \in Descriptors : d.method = "GET"}, {NoParams}, {{}}, {{1}},
                    {"live"})

(* -- PayoutModule -- *)

\* v.minValue / v.maxValue of LimitSchema
LIMIT_MIN == 1

LIMIT_MAX == 50

\* the most keys MetadataSchema accepts
METADATA_MAX_KEYS == 64

\* the issues of validate(IdSchema, id): a non-empty string
IdIssues(id) == {field \in {"id"} : id = ""}

\* the issues of validate(LimitSchema, limit): an integer from 1 to 50
LimitIssues(limit) == {field \in {"limit"} : limit < LIMIT_MIN \/ limit > LIMIT_MAX}

\* the issues of validate(CreatePayoutInputSchema, input)
CreatePayoutInputIssues(input) ==
    {field \in {"amount.currency"} : input.amount.currency \notin {"SLE", "USD"}}
    \cup {field \in {"amount.value"} : input.amount.value < 0}
    \cup {field \in {"destination.providerId"} : input.destination.providerId = ""}

\* the issues of validate(UpdatePayoutInputSchema, input)
UpdatePayoutInputIssues(input) ==
    {field \in {"metadata"} : \E m \in input.metadata : m.keys > METADATA_MAX_KEYS}

\* the ids callers pass
PayoutIds == {"", "pay-1", "a/b"}

\* the inputs callers pass to create
CreatePayoutInputs ==
    { [amount |-> [currency |-> currency, value |-> value],
       destination |-> [type |-> "momo", providerId |-> "m17"]] :
         currency \in {"SLE", "EUR"}, value \in {100, 0 - 1} }

\* the inputs callers pass to update
UpdatePayoutInputs ==
    { [metadata |-> {}], [metadata |-> {[keys |-> 1]}],
      [metadata |-> {[keys |-> METADATA_MAX_KEYS + 1]}] }

\* the params callers pass to list: none, or limit and after
ListPayoutsParams ==
    {{}} \cup { {[limit |-> limit, after |-> after]} :
                  limit \in {{}, {10}, {0}, {LIMIT_MAX + 1}}, after \in {{}, {"cur"}} }

\* encodeURIComponent on the ids callers pass
encodeURIComponent(id) == IF id = "a/b" THEN "a%2Fb" ELSE id

\* the operation of a module a call was made through, with its arguments
Operation(name, id, input, params) ==
    [name |-> name, id |-> id, input |-> input, params |-> params]

\* MonimeHttpClient.should_validate
should_validate(cl) == cl.validate_inputs

\* a module operation that calls request without looking at should_validate
module_operation_unchecked(c, op, issues, path, d, params) ==
    /\ calls[c].pc = "idle"
    /\ \E reason \in AbortReasons, uuid \in randomUUID(c) :
          calls' = [calls EXCEPT ![c] =
                      request_call(client, [calls[c] EXCEPT !.op = {op}], path, d, params,
                                   {}, {}, "live", reason, uuid)]
    /\ UNCHANGED client

\* a module operation: validate throws the issues when should_validate,
\* otherwise http_client.request is called with the descriptor
module_operation(c, op, issues, path, d, params) ==
    /\ calls[c].pc = "idle"
    /\ IF should_validate(client) /\ issues # {}
       THEN calls' = [calls EXCEPT ![c] =
                         Throw([calls[c] EXCEPT !.op = {op}], MonimeValidationError(issues))]
       ELSE \E reason \in AbortReasons, uuid \in randomUUID(c) :
               calls' = [calls EXCEPT ![c] =
                           request_call(client, [calls[c] EXCEPT !.op = {op}], path, d,
                                        params, {}, {}, "live", reason, uuid)]
    /\ UNCHANGED client

\* PayoutModule.create
payout_create(c) ==
    \E input \in CreatePayoutInputs :
        module_operation(c, Operation("create", {}, {input}, {}),
                         CreatePayoutInputIssues(input), "/payouts",
                         [method |-> "POST", body |-> {"payload"}, idempotencyKey |-> {}],
                         NoParams)

\* PayoutModule.get
payout_get(c) ==
    \E id \in PayoutIds :
        module_operation(c, Operation("get", {id}, {}, {}),
                         IdIssues(id), "/payouts/" \o encodeURIComponent(id),
                         [method |-> "GET", body |-> {}, idempotencyKey |-> {}],
                         NoParams)

\* the query_params PayoutModule.list builds from params
payout_query_params(params) ==
    IF params = {} THEN NoParams
    ELSE LET p == CHOOSE x \in params : TRUE
         IN  {<<[key |-> "status", value |-> Undefined],
                [key |-> "sourceFinancialAccountId", value |-> Undefined],
                [key |-> "sourceTransactionReference", value |-> Undefined],
                [key |-> "destinationTransactionReference", value |-> Undefined],
                [key |-> "limit",
                 value |-> IF p.limit = {} THEN Undefined
                           ELSE NumberValue(CHOOSE n \in p.limit : TRUE)],
                [key |-> "after",
                 value |-> IF p.after = {} THEN Undefined
                           ELSE StringValue(CHOOSE a \in p.after : TRUE)]>>}

\* PayoutModule.list
payout_list(c) ==
    \E params \in ListPayoutsParams :
        module_operation(c, Operation("list", {}, {}, params),
                         UNION {LimitIssues(limit) : limit \in UNION {p.limit : p \in params}},
                         "/payouts",
                         [method |-> "GET", body |-> {}, idempotencyKey |-> {}],
                         payout_query_params(params))

\* PayoutModule.update: the id is validated first, then the input
payout_update(c) ==
    \E id \in PayoutIds, input \in UpdatePayoutInputs :
        module_operation(c, Operation("update", {id}, {input}, {}),
                         IF IdIssues(id) # {} THEN IdIssues(id)
                         ELSE UpdatePayoutInputIssues(input),
                         "/payouts/" \o encodeURIComponent(id),
                         [method |-> "PATCH", body |-> {"payload"}, idempotencyKey |-> {}],
                         NoParams)

\* PayoutModule.delete
payout_delete(c) ==
    \E id \in PayoutIds :
        module_operation(c, Operation("delete", {id}, {}, {}),
                         IdIssues(id), "/payouts/" \o encodeURIComponent(id),
                         [method |-> "DELETE", body |-> {}, idempotencyKey |-> {}],
                         NoParams)

\* new MonimeHttpClient(options) returns the client or throws
construct ==
    /\ "options" \in DOMAIN client
    /\ client' = new_MonimeHttpClient(client.options)
    /\ UNCHANGED calls

\* MonimeHttpClient.request for a GET with one retry
request_get(c) ==
    request_with(c, {d \in Descriptors : d.method = "GET"}, {NoParams}, {{}}, {{1}},
                 {"live"})

\* MonimeHttpClient.request made by a list operation: a GET with params
request_list(c) ==
    request_with(c, {d \in Descriptors : d.method = "GET"}, ParamSets, {{}}, {{1}},
                 {"live"})

\* fetch resolves with the response's status and headers; res.json() starts
\* reading the body, which is still to arrive
fetch_resolves_with(c, statuses, headers) ==
    /\ calls[c].pc = "fetching"
    /\ ~SignalAborted(calls[c])
    /\ \E status \in statuses, header \in headers :
         calls' = [calls EXCEPT ![c].pc = "reading",
                                ![c].res = {[status |-> status, retry_after |-> header,
                                             body |-> {}]}]
    /\ UNCHANGED client

\* fetch resolves with any of the responses of the server
fetch_resolves(c) == fetch_resolves_with(c, Statuses, RetryAfterHeaders)

\* fetch resolves with an answer that carries any Retry-After header
fetch_resolves_retry_after(c) == fetch_resolves_with(c, Statuses, AllRetryAfterHeaders)

\* fetch resolves with an answer of a server that sends 200 or 503 and no
\* Retry-After
fetch_resolves_plainly(c) == fetch_resolves_with(c, {200, 503}, {{}})

\* fetch rejects with a TypeError: a network failure
fetch_rejects(c) ==
    /\ calls[c].pc = "fetching"
    /\ ~SignalAborted(calls[c])
    /\ \E jitter \in Jitters :
         calls' = [calls EXCEPT ![c] = attempt_throws(client, calls[c], TypeError, jitter)]
    /\ UNCHANGED client

\* fetch rejects with the reason of the aborted signal
fetch_aborts(c) ==
    /\ calls[c].pc = "fetching"
    /\ SignalAborted(calls[c])
    /\ \E jitter \in Jitters, name \in calls[c].signal_reason :
         calls' = [calls EXCEPT ![c] =
                     attempt_throws(client, calls[c], DOMException(name), jitter)]
    /\ UNCHANGED client

\* res.json() resolves with the parsed body, one of bodies
json_resolves_with(c, bodies) ==
    /\ calls[c].pc = "reading"
    /\ ~SignalAborted(calls[c])
    /\ \E res \in calls[c].res, jitter \in Jitters :
         \E data \in JsonBodies(res.status) \cap bodies :
            LET s == BodyRead(calls[c], res, data)
            IN  calls' = [calls EXCEPT ![c] =
                            IF ~ok(res.status)
                            THEN attempt_throws(client, s, http_error(res, data), jitter)
                            ELSE attempt_returns(s, data)]
    /\ UNCHANGED client

\* res.json() resolves with any JSON value
json_resolves(c) ==
    json_resolves_with(c, UNION {JsonBodies(status) : status \in Statuses})

\* res.json() resolves with a JSON object that has no error property
json_resolves_plainly(c) ==
    json_resolves_with(c, {[json |-> TRUE, null |-> FALSE, error |-> {}]})

\* res.json() rejects because the body is not JSON
json_rejects(c) ==
    /\ calls[c].pc = "reading"
    /\ ~SignalAborted(calls[c])
    /\ \E res \in calls[c].res, jitter \in Jitters :
         calls' = [calls EXCEPT ![c] =
                     attempt_throws(client, BodyRead(calls[c], res, NotJson),
                                    invalid_json_error(res), jitter)]
    /\ UNCHANGED client

\* res.json() rejects because the signal was aborted while the body was read
json_aborts(c) ==
    /\ calls[c].pc = "reading"
    /\ SignalAborted(calls[c])
    /\ \E res \in calls[c].res, jitter \in Jitters :
         calls' = [calls EXCEPT ![c] =
                     attempt_throws(client, calls[c], invalid_json_error(res), jitter)]
    /\ UNCHANGED client

\* one timeout controller shared by the client: the timer of one call aborts
\* every attempt that has a timer armed
timeout_fires_shared(c) ==
    /\ calls[c].timeout_id # {}
    /\ calls[c].timeout_id \subseteq calls[c].timers
    /\ calls' = [o \in DOMAIN calls |->
                   IF calls[o].timeout_id # {} /\ calls[o].timeout_id \subseteq calls[o].timers
                   THEN [calls[o] EXCEPT
                           !.timers = @ \ calls[o].timeout_id,
                           !.timeout_aborted = TRUE,
                           !.signal_reason = IF @ = {} THEN {"AbortError"} ELSE @]
                   ELSE calls[o]]
    /\ UNCHANGED client

\* the attempt's setTimeout callback runs: timeout_controller.abort()
timeout_fires(c) ==
    /\ calls[c].timeout_id # {}
    /\ calls[c].timeout_id \subseteq calls[c].timers
    /\ calls' = [calls EXCEPT
                   ![c].timers = @ \ calls[c].timeout_id,
                   ![c].timeout_aborted = TRUE,
                   ![c].signal_reason = IF @ = {} THEN {"AbortError"} ELSE @]
    /\ UNCHANGED client

\* the caller aborts the signal it passed as config.signal
external_abort(c) ==
    /\ calls[c].pc # "idle"
    /\ calls[c].external_signal
    /\ ~calls[c].ext_aborted
    /\ \E reason \in AbortReasons :
         calls' = [calls EXCEPT
                     ![c].ext_aborted = TRUE,
                     ![c].ext_reason = {reason},
                     ![c].signal_reason =
                         IF calls[c].pc \in {"fetching", "reading"} /\ @ = {}
                         THEN {reason} ELSE @]
    /\ UNCHANGED client

\* the sleep timer fires: attempt_number++ and the loop goes on
sleep_elapses(c) ==
    /\ calls[c].pc = "sleeping"
    /\ LET s == [calls[c] EXCEPT !.timers = @ \ {<<"sleep", calls[c].attempt_number>>},
                                 !.attempt_number = @ + 1]
       IN  calls' = [calls EXCEPT ![c] = retry_loop(s)]
    /\ UNCHANGED client

(* --------------------------- specification ---------------------------- *)

Init ==
    /\ client \in {MonimeHttpClient(options) : options \in ClientOptionsSet}
    /\ calls = [c \in {1} |-> NewCall]

\* what the transport, the timers and the caller's signal do to a call made
Progress(c) ==
    \/ fetch_resolves(c)
    \/ fetch_rejects(c)
    \/ fetch_aborts(c)
    \/ json_resolves(c)
    \/ json_rejects(c)
    \/ json_aborts(c)
    \/ timeout_fires(c)
    \/ external_abort(c)
    \/ sleep_elapses(c)

Next ==
    \E c \in DOMAIN calls :
        \/ request(c)
        \/ Progress(c)

Spec == Init /\ [][Next]_vars

\* the client options of the specification's concrete scenario
ScenarioOptions ==
    [spaceId |-> "spc-1", accessToken |-> "tok", baseUrl |-> {},
     timeout |-> {1000}, retries |-> {2}, retryDelay |-> {100}, retryBackoff |-> {2},
     validateInputs |-> {}]

\* clients constructed with the default delays or with the scenario's delays
BackoffInit ==
    /\ client \in {MonimeHttpClient(options) : options \in ClientOptionsSet \cup {ScenarioOptions}}
    /\ calls = [c \in {1} |-> NewCall]

BackoffSpec == BackoffInit /\ [][Next]_vars

\* calls whose per-call retries is any number: request does not validate its
\* config, and RequestConfig.retries is typed number
UnvalidatedNext ==
    \E c \in DOMAIN calls :
        \/ request_unvalidated(c)
        \/ Progress(c)

UnvalidatedSpec == Init /\ [][UnvalidatedNext]_vars

\* two calls in flight on one client
ConcurrentInit ==
    /\ client = MonimeHttpClient(CHOOSE options \in ClientOptionsSet : options.retries = {})
    /\ calls = [c \in {1, 2} |-> NewCall]

\* Progress with a server that answers 200 or 503 and plain JSON objects
PlainProgress(c) ==
    \/ fetch_resolves_plainly(c)
    \/ fetch_rejects(c)
    \/ fetch_aborts(c)
    \/ json_resolves_plainly(c)
    \/ json_rejects(c)
    \/ json_aborts(c)
    \/ timeout_fires(c)
    \/ external_abort(c)
    \/ sleep_elapses(c)

ConcurrentNext ==
    \E c \in DOMAIN calls :
        \/ request_concurrently(c)
        \/ PlainProgress(c)

\* list operations: GET calls with query parameters
ListNext ==
    \E c \in DOMAIN calls :
        \/ request_list(c)
        \/ PlainProgress(c)

ListSpec == Init /\ [][ListNext]_vars

ConcurrentSpec == ConcurrentInit /\ [][ConcurrentNext]_vars

\* GET calls answered by a server that sends every Retry-After header
RetryAfterNext ==
    \E c \in DOMAIN calls :
        \/ request_get(c)
        \/ fetch_resolves_retry_after(c)
        \/ fetch_rejects(c)
        \/ fetch_aborts(c)
        \/ json_resolves(c)
        \/ json_rejects(c)
        \/ json_aborts(c)
        \/ timeout_fires(c)
        \/ external_abort(c)
        \/ sleep_elapses(c)

RetryAfterSpec == Init /\ [][RetryAfterNext]_vars

\* the client is constructed first, with any of the caller's options
ConstructInit ==
    /\ client \in {Pending(options) : options \in BaseUrlOptionsSet}
    /\ calls = [c \in {1} |-> NewCall]

ConstructNext ==
    \/ construct
    \/ \E c \in DOMAIN calls :
          \/ request_constructed(c)
          \/ PlainProgress(c)

ConstructSpec == ConstructInit /\ [][ConstructNext]_vars

\* clients with validateInputs left out or false, used through PayoutModule
ModuleInit ==
    /\ client \in {MonimeHttpClient([options EXCEPT !.validateInputs = validateInputs]) :
                      options \in {o \in ClientOptionsSet : o.retries = {}},
                      validateInputs \in {{}, {FALSE}}}
    /\ calls = [c \in {1} |-> NewCall]

ModuleNext ==
    \E c \in DOMAIN calls :
        \/ payout_create(c)
        \/ payout_get(c)
        \/ payout_list(c)
        \/ payout_update(c)
        \/ payout_delete(c)
        \/ PlainProgress(c)

ModuleSpec == ModuleInit /\ [][ModuleNext]_vars

FairSpec ==
    /\ Spec
    /\ \A c \in {1} :
         /\ WF_vars(timeout_fires(c))
         /\ WF_vars(sleep_elapses(c))
         /\ WF_vars(fetch_aborts(c))
         /\ WF_vars(json_aborts(c))

(* ------------------------------- claims ------------------------------- *)

\* an attempt of the call is awaiting fetch or res.json()
InFlight(s) == s.pc \in {"fetching", "reading"}

\* the step ends the attempt in flight of call c
AttemptEnds(c) == InFlight(calls[c]) /\ ~InFlight(calls'[c])

\* the step makes a transport call for call c
AttemptStarts(c) == Len(calls'[c].sent) = Len(calls[c].sent) + 1

\* the call has failed with error class class
FailedWith(s, class) ==
    /\ s.pc = "done"
    /\ s.outcome = "failure"
    /\ \E e \in s.thrown : e.class = class

\* the HTTP statuses the specification names retryable
RetryableStatuses == {429, 500, 502, 503, 504}

\* C1: for one logical POST call the Idempotency-Key header sent to the
\* transport is the same, and present, on every attempt.
C1_IdempotencyKeyStable ==
    \A c \in DOMAIN calls :
        calls[c].method = "POST" =>
            \A i \in 1..Len(calls[c].sent) :
                /\ calls[c].sent[i].headers.idempotency_key # {}
                /\ calls[c].sent[i].headers.idempotency_key =
                       calls[c].sent[1].headers.idempotency_key

\* a POST call with a generated key that made three attempts, the last
\* failure before them a retryable API failure
C1_Witness ==
    \E c \in DOMAIN calls :
        /\ calls[c].method = "POST"
        /\ Len(calls[c].sent) = 3
        /\ calls[c].sent[3].headers.idempotency_key = {"uuid-2"}
        /\ \E e \in calls[c].last_error : e.class = "MonimeApiError"

\* C2: when the caller's token has fired while an attempt is in flight,
\* whether or not the attempt timer has fired too, the attempt's end is the
\* end of the call, which fails with the raw cancellation error.
C2_CallerCancellationPropagates ==
    [][\A c \in DOMAIN calls :
          (AttemptEnds(c) /\ ExternalAborted(calls[c])) =>
              /\ FailedWith(calls'[c], "DOMException")
              /\ ~AttemptStarts(c)]_vars

\* C3: when the attempt timer has fired while an attempt is in flight and
\* the caller's token has not, the attempt fails with a MonimeTimeoutError
\* that carries the effective timeout.
C3_TimerFiredMeansTimeoutError ==
    [][\A c \in DOMAIN calls :
          (AttemptEnds(c) /\ calls[c].timeout_aborted /\ ~ExternalAborted(calls[c])) =>
              calls'[c].last_error = {MonimeTimeoutError(calls[c].timeout)}]_vars

\* C4: once the attempt timer has fired before the attempt completed, the
\* caller's token not having fired, the call fails terminally: no delay is
\* waited and no further transport call is made.
C4_TimeoutNeverRetried ==
    [][\A c \in DOMAIN calls :
          (AttemptEnds(c) /\ calls[c].timeout_aborted /\ ~ExternalAborted(calls[c])) =>
              /\ calls'[c].pc = "done"
              /\ calls'[c].outcome = "failure"
              /\ calls'[c].timers = {}
              /\ calls'[c].sent = calls[c].sent]_vars

\* C5: when the handling of a non-2xx response ends an attempt, a further
\* attempt follows iff the response's HTTP status is one of 429, 500, 502,
\* 503, 504 and attempts remain, whatever the body holds.
C5_RetryableIffHttpStatus ==
    [][\A c \in DOMAIN calls :
          \A res \in calls[c].res :
              (AttemptEnds(c) /\ calls[c].pc = "reading" /\ ~ok(res.status)) =>
                  (calls'[c].pc = "sleeping" <=>
                      /\ res.status \in RetryableStatuses
                      /\ calls[c].attempt_number < calls[c].total_attempts)]_vars

\* the error of the failed attempt is a MonimeNetworkError or a
\* MonimeApiError with a retryable code
RetryableFailure(error) ==
    \/ error.class = "MonimeNetworkError"
    \/ /\ error.class = "MonimeApiError"
       /\ error.code \in {{code} : code \in RetryableStatuses}

C7_TransportCallCount ==
    [][\A c \in DOMAIN calls :
          LET s == calls[c]
              n == calls'[c]
          IN  /\ Len(n.sent) <= 1 + n.max_retries
              /\ (n.pc = "done" /\ n.outcome = "success") =>
                    /\ Len(n.sent) = n.attempt_number
                    /\ n.attempt_number - 1 <= n.max_retries
              /\ (n.pc = "done" /\ \E e \in n.thrown : RetryableFailure(e)) =>
                    Len(n.sent) = 1 + n.max_retries
              /\ \A res \in s.res :
                    (AttemptEnds(c) /\ s.pc = "reading" /\ res.status = 400) =>
                        n.pc = "done" /\ Len(n.sent) = Len(s.sent)]_vars

\* the fields of a call that its resolution fixes
Resolution(s) == <<s.pc, s.outcome, s.thrown, s.resolutions, s.sent, s.timers, s.delay,
                   s.attempt_number, s.last_error>>

\* C8: a logical call resolves exactly once, with a success or with a
\* failure; once resolved its outcome stays, and no transport call and no
\* delay follows.
C8_ResolvesExactlyOnce ==
    [][\A c \in DOMAIN calls :
          LET s == calls[c]
              n == calls'[c]
          IN  /\ n.resolutions <= 1
              /\ (n.pc = "done") <=> (n.resolutions = 1)
              /\ (n.pc = "done") <=> (n.outcome \in {"success", "failure"})
              /\ (n.outcome = "failure") <=> (n.thrown # {})
              /\ s.pc = "done" => Resolution(n) = Resolution(s)]_vars

\* a call that succeeded on a retry, and whose caller aborted the signal
\* afterwards
C8_Witness ==
    \E c \in DOMAIN calls :
        /\ calls[c].pc = "done"
        /\ calls[c].outcome = "success"
        /\ calls[c].attempt_number = 2
        /\ calls[c].ext_aborted

\* C9: no timer of a resolved call is pending, and no attempt's timeout
\* timer is pending once that attempt has ended.
C9_NoPendingTimer ==
    \A c \in DOMAIN calls :
        /\ calls[c].pc = "done" => calls[c].timers = {}
        /\ ~InFlight(calls[c]) => \A t \in calls[c].timers : t[1] # "timeout"
        /\ \A t \in calls[c].timers : t[2] = calls[c].attempt_number

\* a call with a timeout that resolved on its third attempt
C9_Witness ==
    \E c \in DOMAIN calls :
        /\ calls[c].pc = "done"
        /\ calls[c].timeout > 0
        /\ calls[c].attempt_number = 3
        /\ calls[c].timeout_id # {}

\* C10: under fairness of the timers and of the transport's reaction to an
\* aborted signal, a call with an effective timeout > 0 resolves.
C10_CallTerminates ==
    \A c \in {1} :
        (calls[c].pc # "idle" /\ calls[c].timeout > 0) ~> (calls[c].pc = "done")

\* a call that timed out on its last attempt without any response to it
C10_Witness ==
    \E c \in DOMAIN calls :
        /\ FailedWith(calls[c], "MonimeTimeoutError")
        /\ calls[c].attempt_number = 3
        /\ calls[c].res = {}

\* C11: when the failed attempt's MonimeApiError carries a retry-after value
\* and the loop goes on, the delay waited is that value, with no backoff and
\* no jitter, at every attempt index.
C11_RetryAfterVerbatim ==
    [][\A c \in DOMAIN calls :
          \A e \in calls'[c].last_error :
              (/\ AttemptEnds(c)
               /\ calls'[c].pc = "sleeping"
               /\ e.class = "MonimeApiError"
               /\ e.retryAfter # {}) =>
                  calls'[c].delay = e.retryAfter]_vars

\* the second attempt was answered HTTP 429 with Retry-After: 2, and the call
\* waits 2000 ms
C11_Witness ==
    \E c \in DOMAIN calls :
        /\ calls[c].pc = "sleeping"
        /\ calls[c].attempt_number = 2
        /\ calls[c].delay = {2000}
        /\ \E res \in calls[c].res :
              res.status = 429 /\ res.retry_after = {[form |-> "seconds", n |-> 2]}
        /\ \E e \in calls[c].last_error : e.code = {429} /\ e.retryAfter = {2000}

\* C12: after a retryable failure without a retry-after value the delay
\* before the k-th retry is retryDelay * retryBackoff^(k-1) + j, 0 <= j < 500;
\* with retryDelay 100 and retryBackoff 2 the waits have base 100, then 200,
\* and a call that succeeds on its third attempt has made 3 transport calls.
C12_BackoffDelay ==
    [][\A c \in DOMAIN calls :
          LET s == calls[c]
              n == calls'[c]
          IN  /\ \A e \in n.last_error :
                    (/\ AttemptEnds(c)
                     /\ n.pc = "sleeping"
                     /\ ~(e.class = "MonimeApiError" /\ e.retryAfter # {})) =>
                        \E ms \in n.delay :
                            LET j == ms - client.retry_delay
                                          * Pow(client.retry_backoff, s.attempt_number - 1)
                            IN  /\ 0 <= j
                                /\ j < 500
                                /\ (client.retry_delay = 100 /\ client.retry_backoff = 2) =>
                                      /\ s.attempt_number = 1 => ms - j = 100
                                      /\ s.attempt_number = 2 => ms - j = 200
              /\ (n.pc = "done" /\ n.outcome = "success" /\ n.attempt_number = 3) =>
                    Len(n.sent) = 3]_vars

\* the scenario: timeout 1000, retries 2, retryDelay 100, retryBackoff 2; the
\* second network failure in a row is followed by a wait of 200 + jitter
C12_Witness ==
    \E c \in DOMAIN calls :
        /\ client.retry_delay = 100
        /\ client.retry_backoff = 2
        /\ calls[c].timeout = 1000
        /\ calls[c].max_retries = 2
        /\ calls[c].pc = "sleeping"
        /\ calls[c].attempt_number = 2
        /\ calls[c].delay = {200 + JITTER_RANGE - 1}
        /\ \E e \in calls[c].last_error : e.class = "MonimeNetworkError"

\* the effective value of an option: the override when supplied, else the default
Effective(override, default) ==
    IF override = {} THEN default ELSE CHOOSE x \in override : TRUE

\* C13: the effective timeout and max-retries of a call are the per-call
\* override when one is supplied, 0 included, and the client default
\* otherwise; they are the values every attempt uses, and a per-call retries
\* of 0 yields exactly one transport call.
C13_OverridesTakePrecedence ==
    \A c \in DOMAIN calls :
        LET s == calls[c]
            timeout == Effective(s.config.timeout, client.timeout)
            retries == Effective(s.config.retries, client.retries)
        IN  s.pc # "idle" =>
               /\ s.timeout = timeout
               /\ s.max_retries = retries
               /\ s.total_attempts = 1 + retries
               /\ Len(s.sent) <= 1 + retries
               /\ s.config.retries = {0} => Len(s.sent) = 1
               /\ InFlight(s) => ((s.timeout_id # {}) <=> (timeout > 0))
               /\ \A e \in s.thrown :
                     e.class = "MonimeTimeoutError" => e.timeout = {timeout}

\* a client whose default is 1 retry, a call overriding retries and timeout
\* with 0: it failed retryably after a single transport call
C13_Witness ==
    \E c \in DOMAIN calls :
        /\ client.retries = 1
        /\ calls[c].config.retries = {0}
        /\ calls[c].config.timeout = {0}
        /\ calls[c].pc = "done"
        /\ Len(calls[c].sent) = 1
        /\ \E e \in calls[c].thrown : e.class = "MonimeNetworkError"

\* C14: when res.json() cannot parse the body, whatever the HTTP status, the
\* attempt fails with a MonimeApiError of reason "invalid_json", code the
\* response's status and empty details.
C14_InvalidJson ==
    [][\A c \in DOMAIN calls :
          \A res \in calls'[c].res :
              (/\ AttemptEnds(c)
               /\ calls[c].pc = "reading"
               /\ res.body = {NotJson}) =>
                  /\ calls'[c].last_error =
                        {MonimeApiError({res.status}, "invalid_json", "empty", {})}
                  /\ calls'[c].pc = "done" =>
                        /\ calls'[c].outcome = "failure"
                        /\ calls'[c].thrown = calls'[c].last_error]_vars

\* HTTP 200 with a body that is not JSON: the call failed with invalid_json
\* and code 200
C14_Witness ==
    \E c \in DOMAIN calls :
        /\ calls[c].pc = "done"
        /\ \E res \in calls[c].res : res.status = 200 /\ res.body = {NotJson}
        /\ \E e \in calls[c].thrown :
              e.class = "MonimeApiError" /\ e.reason = "invalid_json" /\ e.code = {200}

\* the parsed body is an object with an error object that carries a code
MatchesEnvelope(data) ==
    /\ ~data.null
    /\ \E e \in data.error : e.code # {}

\* C15: a non-2xx response whose JSON body does not match the error envelope
\* (null, a string, an empty object, an error without its fields) fails the
\* attempt with a MonimeApiError of code the raw HTTP status, reason
\* "http_error", empty details and the parsed retry-after delay.
C15_GenericHttpError ==
    [][\A c \in DOMAIN calls :
          \A res \in calls'[c].res :
              \A data \in res.body :
                  (/\ AttemptEnds(c)
                   /\ calls[c].pc = "reading"
                   /\ ~ok(res.status)
                   /\ data.json
                   /\ ~MatchesEnvelope(data)) =>
                      calls'[c].last_error =
                          {MonimeApiError({res.status}, "http_error", "empty",
                                          parse_retry_after(res.retry_after))}]_vars

\* the error classes the client defines for failed calls
ClassifiedErrors == {"MonimeApiError", "MonimeTimeoutError", "MonimeNetworkError"}

\* C16: every call ends with the parsed JSON value, with a MonimeApiError,
\* MonimeTimeoutError or MonimeNetworkError, or with the abort of the caller's
\* own signal; a raw failure of the transport is wrapped into
\* MonimeNetworkError, and no other exception reaches the caller.
C16_ClassifiedOutcome ==
    \A c \in DOMAIN calls :
        LET s == calls[c]
        IN  /\ s.pc = "done" =>
                \/ s.outcome = "success" /\ s.thrown = {}
                \/ /\ s.outcome = "failure"
                   /\ \E e \in s.thrown :
                         \/ e.class \in ClassifiedErrors
                         \/ e.class = "DOMException" /\ ExternalAborted(s)
            /\ \A e \in s.last_error : e.class # "TypeError"

\* the Idempotency-Key headers of the fetch calls a call has made
KeysSent(s) == {s.sent[i].headers.idempotency_key : i \in 1..Len(s.sent)}

\* C17: a POST call given an idempotency key sends it on every attempt; a
\* POST call given none sends one generated key on all its attempts, and two
\* such calls send different keys.
C17_IdempotencyKeyOrigin ==
    /\ \A c \in DOMAIN calls :
          LET s == calls[c]
          IN  (s.pc # "idle" /\ s.method = "POST") =>
                 IF s.config.idempotencyKey # {}
                 THEN KeysSent(s) = {s.config.idempotencyKey}
                 ELSE \E uuid \in UUIDs : KeysSent(s) = {{uuid}}
    /\ \A c1, c2 \in DOMAIN calls :
          (/\ c1 # c2
           /\ calls[c1].pc # "idle" /\ calls[c1].method = "POST"
           /\ calls[c2].pc # "idle" /\ calls[c2].method = "POST"
           /\ calls[c1].config.idempotencyKey = {}
           /\ calls[c2].config.idempotencyKey = {}) =>
              KeysSent(calls[c1]) \cap KeysSent(calls[c2]) = {}

\* two POST calls without a supplied key, each retried once: the keys they
\* sent differ
C17_Witness ==
    /\ \A c \in DOMAIN calls :
          /\ calls[c].method = "POST"
          /\ calls[c].config.idempotencyKey = {}
          /\ Len(calls[c].sent) = 2
    /\ \E c1, c2 \in DOMAIN calls :
          /\ c1 # c2
          /\ KeysSent(calls[c1]) = {{"uuid-1"}}
          /\ KeysSent(calls[c2]) = {{"uuid-2"}}

\* C18: every fetch call carries Authorization: Bearer <access token> and
\* Monime-Space-Id; with a body it carries Content-Type: application/json;
\* a POST carries an Idempotency-Key; and all fetch calls of one call carry
\* the same headers.
C18_HeadersOnEveryAttempt ==
    \A c \in DOMAIN calls :
        LET s == calls[c]
        IN  \A i \in 1..Len(s.sent) :
               LET headers == s.sent[i].headers
               IN  /\ headers.authorization = {<<"Bearer", client.access_token>>}
                   /\ headers.space_id = {client.space_id}
                   /\ s.sent[i].body # {} => headers.content_type = {"application/json"}
                   /\ s.sent[i].method = "POST" => headers.idempotency_key # {}
                   /\ \A j \in 1..Len(s.sent) : s.sent[j].headers = headers

\* a POST with a body was sent three times with all four headers
C18_Witness ==
    \E c \in DOMAIN calls :
        /\ Len(calls[c].sent) = 3
        /\ \A i \in 1..3 :
              /\ calls[c].sent[i].method = "POST"
              /\ calls[c].sent[i].body = {"payload"}
              /\ calls[c].sent[i].headers =
                    [space_id |-> {"spc-1"},
                     authorization |-> {<<"Bearer", "tok">>},
                     content_type |-> {"application/json"},
                     idempotency_key |-> {"uuid-2"}]

\* the key/value pairs of the query string of a URL, none without "?"
Query(url) == IF Len(url) = 5 /\ url[4] = "?" THEN url[5] ELSE <<>>

\* the entries of the params object passed with the call
Entries(s) == IF s.params = {} THEN <<>> ELSE CHOOSE entries \in s.params : TRUE

\* C19: a query parameter appears in the URL iff its value is not undefined,
\* as String(value), so 0, false and "" are serialized; an undefined value
\* contributes no key, and when every value is undefined there is no "?".
C19_QueryParameters ==
    \A c \in DOMAIN calls :
        LET s == calls[c]
            entries == Entries(s)
            query == Query(s.url)
        IN  s.pc # "idle" =>
               /\ \A i \in 1..Len(entries) :
                     (\E j \in 1..Len(query) : query[j][1] = entries[i].key)
                        <=> entries[i].value # Undefined
               /\ \A j \in 1..Len(query) :
                     \E i \in 1..Len(entries) :
                         /\ query[j][1] = entries[i].key
                         /\ entries[i].value = NumberValue(0) => query[j][2] = "0"
                         /\ entries[i].value = NumberValue(10) => query[j][2] = "10"
                         /\ entries[i].value = BooleanValue(FALSE) => query[j][2] = "false"
                         /\ entries[i].value = StringValue("") => query[j][2] = ""
                         /\ entries[i].value = StringValue("x") => query[j][2] = "x"
               /\ (\A i \in 1..Len(entries) : entries[i].value = Undefined) =>
                     s.url = <<client.base_url, API_VERSION, "/payouts">>
               /\ \A k \in 1..Len(s.sent) : s.sent[k].url = s.url

\* limit 0 and after "" were given: the URL fetched is
\* .../v1/payouts?limit=0&after=
C19_Witness ==
    \E c \in DOMAIN calls :
        /\ calls[c].params = {<<[key |-> "limit", value |-> NumberValue(0)],
                                [key |-> "after", value |-> StringValue("")]>>}
        /\ Len(calls[c].sent) = 2
        /\ Query(calls[c].sent[2].url) = <<<<"limit", "0">>, <<"after", "">>>>

\* C20: constructing a client with a baseUrl that does not start with
\* "https://" throws MonimeValidationError and yields no client, also when
\* validateInputs is false; every fetch call of a constructed client targets
\* an https URL, and base_url does not change after construction.
C20_HttpsOnly ==
    [][/\ ("options" \in DOMAIN client /\ client' # client) =>
             /\ (\E url \in client.options.baseUrl : ~startsWith(url, "https://")) =>
                   /\ ~Constructed(client')
                   /\ client'.thrown.class = "MonimeValidationError"
             /\ Constructed(client') =>
                   client'.base_url = Nullish(client.options.baseUrl, DEFAULT_BASE_URL)
       /\ ~Constructed(client') => \A c \in DOMAIN calls : calls'[c].sent = <<>>
       /\ Constructed(client') =>
             /\ client'.base_url[1] = "https://"
             /\ \A c \in DOMAIN calls :
                   \A i \in 1..Len(calls'[c].sent) :
                       /\ calls'[c].sent[i].url[1] = client'.base_url
                       /\ calls'[c].sent[i].url[1][1] = "https://"
       /\ ("options" \notin DOMAIN client) => client' = client]_vars

\* baseUrl "http://api.monime.io" with validateInputs false: the constructor
\* threw MonimeValidationError for baseUrl
C20_Witness ==
    /\ "thrown" \in DOMAIN client
    /\ client.rejected.baseUrl = {<<"http://", "api.monime.io">>}
    /\ client.rejected.validateInputs = {FALSE}
    /\ client.thrown = MonimeValidationError({"baseUrl"})
    /\ \A c \in DOMAIN calls : calls[c].pc = "idle"

\* the issues the schemas of an operation find in its arguments
OperationIssues(op) ==
    UNION ({IdIssues(id) : id \in op.id}
           \cup {CreatePayoutInputIssues(input) : input \in
                    IF op.name = "create" THEN op.input ELSE {}}
           \cup {UpdatePayoutInputIssues(input) : input \in
                    IF op.name = "update" THEN op.input ELSE {}}
           \cup {LimitIssues(limit) : limit \in UNION {p.limit : p \in op.params}})

PrefixedSpaceIds == {"spc-1"}

\* C22: with validation enabled, constructing a client whose spaceId does not
\* start with "spc-" throws MonimeValidationError and yields no client.
C22_SpaceIdPrefix ==
    [][("options" \in DOMAIN client /\ client' # client
        /\ client.options.validateInputs # {FALSE}
        /\ client.options.spaceId \notin PrefixedSpaceIds) =>
           /\ ~Constructed(client')
           /\ client'.thrown.class = "MonimeValidationError"]_vars

\* C23: the caller's signal aborting during the delay between two attempts
\* does not cut the delay short; when the delay has elapsed the next attempt
\* starts with a signal that is already aborted, receives no response, and
\* the call fails with the abort reason of the caller's signal.
C23_AbortDuringDelay ==
    [][\A c \in DOMAIN calls :
          LET s == calls[c]
              n == calls'[c]
          IN  /\ (s.pc = "sleeping" /\ ~s.ext_aborted /\ n.ext_aborted) =>
                    /\ n.pc = "sleeping"
                    /\ n.delay = s.delay
                    /\ n.timers = s.timers
                    /\ n.sent = s.sent
              /\ (s.pc = "sleeping" /\ ExternalAborted(s) /\ n.pc # "sleeping") =>
                    /\ n.pc = "fetching"
                    /\ n.attempt_number = s.attempt_number + 1
                    /\ <<"sleep", s.attempt_number>> \notin n.timers
                    /\ n.signal_reason = s.ext_reason
              /\ (s.pc = "fetching" /\ s.signal_reason = s.ext_reason
                  /\ ExternalAborted(s) /\ n.pc # "fetching") =>
                    /\ n.res = {}
                    /\ n.pc = "done"
                    /\ n.outcome = "failure"
                    /\ n.thrown = {DOMException(CHOOSE name \in s.ext_reason : TRUE)}
                    /\ n.thrown # s.last_error]_vars

\* the first attempt failed with a network error, then the caller's signal
\* aborted while the call was sleeping: the call still sleeps
C23_Witness ==
    \E c \in DOMAIN calls :
        /\ calls[c].pc = "sleeping"
        /\ calls[c].attempt_number = 1
        /\ calls[c].ext_aborted
        /\ calls[c].ext_reason = {"AbortError"}
        /\ calls[c].delay # {}
        /\ \E e \in calls[c].last_error : e.class = "MonimeNetworkError"

\* C24: a call never has more than one timer armed, the timeout timer of
\* the attempt in flight or the timer of the delay; an attempt begins only
\* when no attempt is in flight, the timeout timer of the attempt before it
\* is cleared and the delay computed after it has elapsed.
C24_SequentialAttempts ==
    [][\A c \in DOMAIN calls :
          LET s == calls[c]
              n == calls'[c]
          IN  /\ Cardinality(n.timers) <= 1
              /\ InFlight(n) => n.timers \subseteq {<<"timeout", n.attempt_number>>}
              /\ n.pc = "sleeping" => n.timers = {<<"sleep", n.attempt_number>>}
              /\ AttemptStarts(c) =>
                    /\ ~InFlight(s)
                    /\ n.attempt_number = s.attempt_number + 1
                    /\ Len(n.sent) = n.attempt_number
                    /\ s.attempt_number >= 1 =>
                          /\ s.pc = "sleeping"
                          /\ s.delay # {}
                          /\ s.timers = {<<"sleep", s.attempt_number>>}
                          /\ <<"sleep", s.attempt_number>> \notin n.timers]_vars

\* the third attempt is in flight with only its own timeout timer armed
C24_Witness ==
    \E c \in DOMAIN calls :
        /\ calls[c].pc = "fetching"
        /\ calls[c].attempt_number = 3
        /\ Len(calls[c].sent) = 3
        /\ calls[c].timers = {<<"timeout", 3>>}

\* C25: a call makes at least one fetch call before it resolves, whatever
\* max_retries reaches execute_with_retry, a negative per-call retries
\* included, and it never fails with an error that no attempt produced.
C25_AtLeastOneAttempt ==
    \A c \in DOMAIN calls :
        calls[c].pc = "done" =>
            /\ Len(calls[c].sent) >= 1
            /\ calls[c].outcome = "failure" =>
                  /\ calls[c].last_error # {}
                  /\ calls[c].thrown = calls[c].last_error

C27_InvalidJsonBackoff ==
    [][\A c \in DOMAIN calls :
          LET s == calls[c]
              n == calls'[c]
          IN  /\ \A e \in n.last_error \cup n.thrown :
                    (e.class = "MonimeApiError" /\ e.reason = "invalid_json") =>
                        e.retryAfter = {}
              /\ \A res \in n.res :
                    (/\ AttemptEnds(c)
                     /\ s.pc = "reading"
                     /\ res.body = {NotJson}
                     /\ res.status \in RetryableStatuses
                     /\ res.retry_after # {}
                     /\ s.attempt_number < s.total_attempts) =>
                        /\ n.pc = "sleeping"
                        /\ \E ms \in n.delay :
                              LET j == ms - client.retry_delay
                                            * Pow(client.retry_backoff, s.attempt_number - 1)
                              IN  0 <= j /\ j < 500]_vars

\* HTTP 429 with Retry-After: 2 and a body that is not JSON on the first
\* attempt: the call waits 1000 ms plus jitter
C27_Witness ==
    \E c \in DOMAIN calls :
        /\ calls[c].pc = "sleeping"
        /\ calls[c].attempt_number = 1
        /\ client.retry_delay = 1000
        /\ calls[c].delay = {1000 + JITTER_RANGE - 1}
        /\ \E res \in calls[c].res :
              /\ res.status = 429
              /\ res.body = {NotJson}
              /\ res.retry_after = {[form |-> "seconds", n |-> 2]}
        /\ \E e \in calls[c].last_error : e.reason = "invalid_json" /\ e.retryAfter = {}

\* C28: two calls in flight on the same client do not interfere: every step
\* of the program changes the record of at most one call and leaves the
\* client configuration as it was, and under every interleaving the effective
\* timeout, the number of attempts, the idempotency key and the outcome of a
\* call are those its own config, the client defaults and its own responses
\* give.
C28_CallsAreIsolated ==
    [][/\ client' = client
       /\ \E c \in DOMAIN calls : \A o \in DOMAIN calls \ {c} : calls'[o] = calls[o]
       /\ \A c \in DOMAIN calls :
             LET n == calls'[c]
             IN  n.pc # "idle" =>
                    /\ n.timeout = Effective(n.config.timeout, client.timeout)
                    /\ n.total_attempts = 1 + Effective(n.config.retries, client.retries)
                    /\ Len(n.sent) = n.attempt_number
                    /\ n.attempt_number <= n.total_attempts
                    /\ IF n.config.idempotencyKey # {}
                       THEN KeysSent(n) = {n.config.idempotencyKey}
                       ELSE \E uuid \in UUIDs : KeysSent(n) = {{uuid}}
                    /\ (n.timeout_aborted /\ ~calls[c].timeout_aborted) =>
                           <<"timeout", n.attempt_number>> \in calls[c].timers
                    /\ n.outcome = "success" =>
                           \E res \in n.res : res.status = 200 /\ res.body # {NotJson}
                    /\ n.outcome = "failure" => n.thrown = n.last_error]_vars

\* both calls are in flight at once, one with the client's timeout on its
\* first attempt and one with its own timeout of 50 on its second
C28_Witness ==
    /\ InFlight(calls[1]) /\ InFlight(calls[2])
    /\ calls[1].timeout = DEFAULT_TIMEOUT /\ calls[1].attempt_number = 1
    /\ calls[2].timeout = 50 /\ calls[2].attempt_number = 2

\* C29: a call whose effective timeout is 0 never has a timeout timer armed,
\* its timeout controller never aborts and it never fails with a
\* MonimeTimeoutError; when the caller passed no signal either, every fetch
\* call of it is made without a signal.
C29_ZeroTimeoutDisablesTimer ==
    \A c \in DOMAIN calls :
        LET s == calls[c]
        IN  (s.pc # "idle" /\ Effective(s.config.timeout, client.timeout) = 0) =>
               /\ s.timeout_id = {}
               /\ \A t \in s.timers : t[1] # "timeout"
               /\ ~s.timeout_aborted
               /\ \A e \in s.last_error \cup s.thrown : e.class # "MonimeTimeoutError"
               /\ ~s.external_signal =>
                      \A i \in 1..Len(s.sent) : ~s.sent[i].signal

\* a call with timeout 0 and no signal has made two fetch calls and is
\* waiting for the second one
C29_Witness ==
    \E c \in DOMAIN calls :
        /\ calls[c].config.timeout = {0}
        /\ ~calls[c].external_signal
        /\ calls[c].pc = "fetching"
        /\ Len(calls[c].sent) = 2

\* the value the Retry-After header h stands for: none when it is absent,
\* empty or neither seconds nor a date, n * 1000 for n seconds, the distance
\* to a date in the future
RetryAfterOf(header) ==
    UNION {IF h.form = "seconds" THEN {h.n * 1000}
           ELSE IF h.form = "date" /\ h.n > 0 THEN {h.n}
           ELSE {} : h \in header}

====
